---- MODULE Spec2Model ----
(***************************************************************************)
(* The kanban board of src/src/App.js as a state machine.                  *)
(*                                                                         *)
(* The state is the React state of App (isAdmin, currentPage), of          *)
(* AuthScreen (showPasswordChange) and of KanbanBoard (boards, columns,    *)
(* tasks, currentBoardId, the modal, the remembered dragged task and       *)
(* column), and localStorage.  One action stands for one event             *)
(* handler together with the effects React runs after it (the              *)
(* current-board effect of lines 397-403).                                 *)
(*                                                                         *)
(* Strings are sequences of one-character strings, so that trim() is       *)
(* computed.  Identifiers are the clock reading they are derived from      *)
(* (`board-${Date.now()}`); the three kinds live in separate name spaces.  *)
(***************************************************************************)
EXTENDS Integers, Sequences, FiniteSets, TLC

\* The largest clock reading the model hands out: every creation reads the
\* clock, so this bounds the number of boards, columns and tasks ever created.
MaxClock == 5

\* The number of in-place edits (updateColumnName, updateTask) in one run.
MaxEdits == 2

\* The largest clock reading in the runs that edit, reorder columns and drop
\* on target tasks at once.
MaxEditClock == 4

\* null / "no selection" (ids themselves are clock readings >= 1).
Null == 0

\* What a user may type into a name or title prompt.
Strings == {<<>>, <<" ">>, <<"a">>}

\* What a user may type over an existing column name.
EditStrings == {<<" ">>, <<"b">>}

\* What a user may leave in the title and description fields of the task detail.
EditedText == {<<"b">>}

Statuses == {"todo", "in-progress", "done"}

ADMIN_USERNAME == <<"a", "d", "m", "i", "n">>

DEFAULT_ADMIN_PASSWORD == <<"p", "a", "s", "s", "w", "o", "r", "d", "1", "2", "3">>

\* What a user may type into the user name field of the login form.
Usernames == {ADMIN_USERNAME, <<"b", "o", "b">>}

\* What a user may type into a password field: the default password, a
\* password of six characters and one of five.
Passwords == {DEFAULT_ADMIN_PASSWORD, <<"s", "e", "c", "r", "e", "t">>,
              <<"s", "e", "c", "r", "e">>}

\* What a user may type as the new password and as its confirmation.
NewPasswords == {<<"s", "e", "c", "r", "e", "t">>, <<"s", "e", "c", "r", "e">>}

VARIABLES
    isAdmin,                   \* App: useState(false), line 37
    currentPage,               \* App: "board" or "login", line 39
    boards,                    \* KanbanBoard state, line 342
    currentBoardId,            \* line 343
    columns,                   \* line 344
    tasks,                     \* line 345
    modalContent,              \* showModal and modalContent, lines 347-348
    showBoardManagementModal,  \* line 353
    draggedTask,               \* line 350: <<>> for null, else <<task>>
    draggedColumn,             \* line 351: <<>> for null, else <<column>>
    showPasswordChange,        \* AuthScreen state, line 170
    storage,                   \* localStorage: one entry per key
    phase,                     \* "mounting" until the mount effects ran, then "running",
                               \* "crashed" or "nonlist"
    now,                       \* the last reading of Date.now()
    edits,                     \* in-place edits made so far
    last                       \* history: the handler that ran last and the state it ran in

vars == <<isAdmin, currentPage, boards, currentBoardId, columns, tasks, modalContent,
          showBoardManagementModal, draggedTask, draggedColumn, showPasswordChange,
          storage, phase, now, edits, last>>

----------------------------------------------------------------------------
(* JavaScript helpers, with 0-based indexes as in the source. *)

RECURSIVE trimStart(_)
trimStart(s) == IF s # <<>> /\ Head(s) = " " THEN trimStart(Tail(s)) ELSE s

RECURSIVE trimEnd(_)
trimEnd(s) == IF s # <<>> /\ s[Len(s)] = " " THEN trimEnd(SubSeq(s, 1, Len(s) - 1)) ELSE s

\* String.prototype.trim
trim(s) == trimEnd(trimStart(s))

\* Array.prototype.some(x => x.id === id)
some(seq, id) == \E i \in 1..Len(seq) : seq[i].id = id

\* Array.prototype.findIndex(x => x.id === id): the first match, or -1.
findIndex(seq, id) ==
    IF some(seq, id)
    THEN (CHOOSE i \in 1..Len(seq) :
              seq[i].id = id /\ \A j \in 1..(i - 1) : seq[j].id # id) - 1
    ELSE -1

\* seq.splice(index, 1) with 0 <= index < length: the array that is left.
spliceRemove(seq, index) ==
    [i \in 1..(Len(seq) - 1) |-> IF i <= index THEN seq[i] ELSE seq[i + 1]]

\* seq.splice(start, 0, x): a negative start counts from the end, and the
\* start is clamped to 0..length.
spliceInsert(seq, start, x) ==
    LET len == Len(seq)
        at  == IF start < 0
               THEN (IF len + start < 0 THEN 0 ELSE len + start)
               ELSE (IF start > len THEN len ELSE start)
    IN  SubSeq(seq, 1, at) \o <<x>> \o SubSeq(seq, at + 1, len)

\* One step of a stable sort: x goes after every element whose order is <= its own.
insertByOrder(sorted, x) ==
    LET k == Cardinality({i \in 1..Len(sorted) : sorted[i].order <= x.order})
    IN  SubSeq(sorted, 1, k) \o <<x>> \o SubSeq(sorted, k + 1, Len(sorted))

\* Array.prototype.sort((a, b) => a.order - b.order), which is stable.
RECURSIVE sortByOrder(_)
sortByOrder(seq) ==
    IF seq = <<>> THEN <<>>
    ELSE insertByOrder(sortByOrder(SubSeq(seq, 1, Len(seq) - 1)), seq[Len(seq)])

\* Math.max(...seq.map(x => x.order)) of a non-empty array.
maxOrder(seq) ==
    CHOOSE m \in {seq[i].order : i \in 1..Len(seq)} :
        \A i \in 1..Len(seq) : seq[i].order <= m

\* seq.length > 0 ? Math.max(...) + 1 : 0
nextOrder(seq) == IF Len(seq) > 0 THEN maxOrder(seq) + 1 ELSE 0

\* tasks.filter(t => t.columnId === columnId)
tasksInColumn(ts, columnId) == SelectSeq(ts, LAMBDA t : t.columnId = columnId)

\* columns.filter(c => c.boardId === boardId)
columnsOfBoard(cs, boardId) == SelectSeq(cs, LAMBDA c : c.boardId = boardId)

\* seq.map(t => { const r = list.find(rt => rt.id === t.id);
\*                return r ? { ...t, order: list.indexOf(r) } : t; })
renumber(seq, list) ==
    [i \in 1..Len(seq) |->
        IF findIndex(list, seq[i].id) # -1
        THEN [seq[i] EXCEPT !.order = findIndex(list, seq[i].id)]
        ELSE seq[i]]

----------------------------------------------------------------------------
(* The pure parts of the handlers. *)

\* A slip: the selection is left as it is.
currentBoardKept(bs, cur) == cur

\* The effect "Update current board if boards array changes".
currentBoardEffect(bs, cur) ==
    IF cur = Null /\ Len(bs) > 0 THEN bs[1].id
    ELSE IF cur # Null /\ ~some(bs, cur)
         THEN (IF Len(bs) > 0 THEN bs[1].id ELSE Null)
         ELSE cur

newBoard(id, name) == [id |-> id, name |-> name, createdAt |-> id]

\* A column that is always put first.
newColumnFirst(id, name, boardId, order) ==
    [id |-> id, name |-> name, boardId |-> boardId, order |-> 0, createdAt |-> id]

newColumn(id, name, boardId, order) ==
    [id |-> id, name |-> name, boardId |-> boardId, order |-> order, createdAt |-> id]

\* A task that is always put first.
newTaskFirst(id, title, columnId, boardId, order) ==
    [id |-> id, title |-> title, description |-> <<>>, columnId |-> columnId,
     boardId |-> boardId, order |-> 0, status |-> "todo", createdAt |-> id]

newTask(id, title, columnId, boardId, order) ==
    [id |-> id, title |-> title, description |-> <<>>, columnId |-> columnId,
     boardId |-> boardId, order |-> order, status |-> "todo", createdAt |-> id]

\* deleteBoard's onConfirm, the three filters.
deleteBoardBoards(bs, boardId) == SelectSeq(bs, LAMBDA b : b.id # boardId)

deleteBoardColumns(cs, boardId) == SelectSeq(cs, LAMBDA c : c.boardId # boardId)

\* A slip: the tasks filtered by the wrong field.
deleteBoardTasksByColumn(ts, boardId) == SelectSeq(ts, LAMBDA t : t.columnId # boardId)

deleteBoardTasks(ts, boardId) == SelectSeq(ts, LAMBDA t : t.boardId # boardId)

\* deleteColumn's onConfirm, the two filters.
deleteColumnColumns(cs, columnId) == SelectSeq(cs, LAMBDA c : c.id # columnId)

\* A slip: the tasks filtered by the wrong field.
deleteColumnTasksByBoard(ts, columnId) == SelectSeq(ts, LAMBDA t : t.boardId # columnId)

deleteColumnTasks(ts, columnId) == SelectSeq(ts, LAMBDA t : t.columnId # columnId)

\* deleteTask's onConfirm.
deleteTaskTasks(ts, taskId) == SelectSeq(ts, LAMBDA t : t.id # taskId)

\* updateColumnName's map.
renameColumn(cs, columnId, newName) ==
    [i \in 1..Len(cs) |->
        IF cs[i].id = columnId THEN [cs[i] EXCEPT !.name = newName] ELSE cs[i]]

\* updateTask's map with the updates { title, description, status } of handleSave.
\* A merge that takes every task for the one edited.
mergeTaskAny(ts, taskId, title, description, status) ==
    [i \in 1..Len(ts) |->
        [ts[i] EXCEPT !.title = title, !.description = description, !.status = status]]

mergeTask(ts, taskId, title, description, status) ==
    [i \in 1..Len(ts) |->
        IF ts[i].id = taskId
        THEN [ts[i] EXCEPT !.title = title, !.description = description, !.status = status]
        ELSE ts[i]]

\* handleDrop, same column: the column's tasks sorted by order.
sortedColumn(ts, columnId) == sortByOrder(tasksInColumn(ts, columnId))

\* A slip: the removed task goes back in after the target task.
targetIndexAfter(rest, targetTask) ==
    IF targetTask # <<>> THEN findIndex(rest, targetTask[1]) + 1 ELSE Len(rest)

\* handleDrop, same column: where the removed task goes back in. `rest` is the
\* sorted column without the dragged task, targetTask is <<>> or <<task id>>.
targetIndexOf(rest, targetTask) ==
    IF targetTask # <<>> THEN findIndex(rest, targetTask[1]) ELSE Len(rest)

\* A slip: the renumbered column replaces the whole collection.
reorderOnlyColumn(ts, columnId, draggedIndex, targetTask) ==
    LET inColumn == sortedColumn(ts, columnId)
        removed  == inColumn[draggedIndex + 1]
        rest     == spliceRemove(inColumn, draggedIndex)
        list     == spliceInsert(rest, targetIndexOf(rest, targetTask), removed)
    IN  renumber(tasksInColumn(ts, columnId), list)

\* handleDrop, same column, once the dragged task was found at draggedIndex.
reorderSameColumn(ts, columnId, draggedIndex, targetTask) ==
    LET inColumn == sortedColumn(ts, columnId)
        removed  == inColumn[draggedIndex + 1]
        rest     == spliceRemove(inColumn, draggedIndex)
        list     == spliceInsert(rest, targetIndexOf(rest, targetTask), removed)
    IN  renumber(ts, list)

\* handleDrop, different column: the dragged task goes to the target column.
reassignTask(ts, taskId, targetColumnId) ==
    LET newOrder == nextOrder(tasksInColumn(ts, targetColumnId))
    IN  [i \in 1..Len(ts) |->
            IF ts[i].id = taskId
            THEN [ts[i] EXCEPT !.columnId = targetColumnId, !.order = newOrder]
            ELSE ts[i]]

\* A slip: the source column keeps its orders.
compactSourceSkipped(ts, taskId, sourceColumnId) == ts

\* handleDrop, different column: the source column is renumbered.
compactSource(ts, taskId, sourceColumnId) ==
    LET inSource == sortByOrder(SelectSeq(ts,
                        LAMBDA t : t.columnId = sourceColumnId /\ t.id # taskId))
    IN  renumber(ts, inSource)

moveToColumn(ts, taskId, sourceColumnId, targetColumnId) ==
    compactSource(reassignTask(ts, taskId, targetColumnId), taskId, sourceColumnId)

\* A slip: the two columns change places.
reorderColumnsSwapped(cs, boardId, sourceIndex, targetIndex) ==
    LET sorted == sortByOrder(columnsOfBoard(cs, boardId))
        moved  == [i \in 1..Len(sorted) |->
                      IF i = sourceIndex + 1 THEN sorted[targetIndex + 1]
                      ELSE IF i = targetIndex + 1 THEN sorted[sourceIndex + 1]
                      ELSE sorted[i]]
    IN  [i \in 1..Len(moved) |-> [moved[i] EXCEPT !.order = i - 1]]

\* handleColumnDrop: the current board's columns in their new order, renumbered.
reorderColumns(cs, boardId, sourceIndex, targetIndex) ==
    LET sorted  == sortByOrder(columnsOfBoard(cs, boardId))
        removed == sorted[sourceIndex + 1]
        moved   == spliceInsert(spliceRemove(sorted, sourceIndex), targetIndex, removed)
    IN  [i \in 1..Len(moved) |-> [moved[i] EXCEPT !.order = i - 1]]

----------------------------------------------------------------------------
(* localStorage.  An entry is what getItem and JSON.parse make of a key:   *)
(* absent (getItem returns null), text that JSON.parse rejects, or a JSON  *)
(* value.  JSON.stringify followed by JSON.parse gives back a list of      *)
(* plain records, a string, a boolean or null as it was, so a written      *)
(* entry holds the value itself.                                           *)

absent == [kind |-> "absent", list |-> <<>>, id |-> Null, flag |-> FALSE, text |-> <<>>]

\* Text that is not JSON.
garbage == [absent EXCEPT !.kind = "garbage"]

jsonNull == [absent EXCEPT !.kind = "null"]

jsonList(seq) == [absent EXCEPT !.kind = "list", !.list = seq]

jsonBool(b) == [absent EXCEPT !.kind = "bool", !.flag = b]

jsonString(str) == [absent EXCEPT !.kind = "string", !.text = str]

\* JSON.stringify(currentBoardId): an id string, or null.
jsonId(id) == IF id = Null THEN jsonNull ELSE [absent EXCEPT !.kind = "id", !.id = id]

\* localStorage of a browser profile that never ran the application.
emptyStorage ==
    [kanban_boards |-> absent, kanban_columns |-> absent, kanban_tasks |-> absent,
     kanban_currentBoardId |-> absent, kanban_isAdmin |-> absent,
     kanban_admin_password |-> absent, kanban_password_changed |-> absent]

\* getLocalStorageItem(key, defaultValue), given the entry of the key: the
\* default when there is no item or JSON.parse throws, else the parsed value
\* whatever it is.
getLocalStorageItem(item, defaultValue) ==
    IF item.kind = "absent" THEN defaultValue
    ELSE IF item.kind = "garbage" THEN defaultValue
    ELSE item

\* The React state of KanbanBoard that is saved: as it is now, and as
\* useState creates it.
memory ==
    [boards |-> boards, columns |-> columns, tasks |-> tasks,
     currentBoardId |-> currentBoardId]

noMemory == [boards |-> <<>>, columns |-> <<>>, tasks |-> <<>>, currentBoardId |-> Null]

\* The four save effects as they run after the first render: each one writes.
saveOnMount(st, mem) ==
    [st EXCEPT !.kanban_boards = jsonList(mem.boards),
               !.kanban_columns = jsonList(mem.columns),
               !.kanban_tasks = jsonList(mem.tasks),
               !.kanban_currentBoardId = jsonId(mem.currentBoardId)]

\* The four save effects after a later render: the ones whose dependency
\* changed write.  (A setter called with a new array of equal content writes
\* the content the entry already holds.)
saveOnChange(st, prev, next) ==
    [st EXCEPT !.kanban_boards = IF next.boards # prev.boards
                                 THEN jsonList(next.boards) ELSE @,
               !.kanban_columns = IF next.columns # prev.columns
                                  THEN jsonList(next.columns) ELSE @,
               !.kanban_tasks = IF next.tasks # prev.tasks
                                THEN jsonList(next.tasks) ELSE @,
               !.kanban_currentBoardId = IF next.currentBoardId # prev.currentBoardId
                                         THEN jsonId(next.currentBoardId) ELSE @]

\* The load effect's choice of the current board.
initialBoardId(storedBoards, storedCurrentBoardId) ==
    IF Len(storedBoards) > 0
    THEN (IF storedCurrentBoardId # Null /\ some(storedBoards, storedCurrentBoardId)
          THEN storedCurrentBoardId
          ELSE storedBoards[1].id)
    ELSE Null

\* The load effect, given localStorage: what it hands to the setters, and how
\* the mount goes on.  A stored null is not replaced by the default:
\*   "crashed"  storedBoards.length throws (line 366), or the render after
\*              the load throws in columns.filter (line 925, reached when a
\*              board is current) or tasks.filter (line 959, reached when a
\*              column of the current board is rendered);
\*   "nonlist"  no line throws yet, and columns or tasks is null;
\*   "running"  boards, columns and tasks are lists.
loadEffect(st) ==
    LET storedBoards  == getLocalStorageItem(st.kanban_boards, jsonList(<<>>))
        storedColumns == getLocalStorageItem(st.kanban_columns, jsonList(<<>>))
        storedTasks   == getLocalStorageItem(st.kanban_tasks, jsonList(<<>>))
        storedCurrentBoardId == getLocalStorageItem(st.kanban_currentBoardId, jsonNull)
        idToSet == initialBoardId(storedBoards.list, storedCurrentBoardId.id)
        shown   == columnsOfBoard(storedColumns.list, idToSet)
        thrown  == \/ storedBoards.kind # "list"
                   \/ storedColumns.kind # "list" /\ idToSet # Null
                   \/ storedTasks.kind # "list" /\ idToSet # Null /\ shown # <<>>
    IN  [phase |-> IF thrown THEN "crashed"
                   ELSE IF storedColumns.kind # "list" \/ storedTasks.kind # "list"
                        THEN "nonlist" ELSE "running",
         inEffect |-> storedBoards.kind # "list",
         boards |-> storedBoards.list, columns |-> storedColumns.list,
         tasks |-> storedTasks.list, currentBoardId |-> idToSet,
         storedColumns |-> storedColumns, storedTasks |-> storedTasks]

\* A slip: the save effects of the first render run before the load effect reads.
mountEffectsSaveFirst(st) ==
    LET written == saveOnMount(st, noMemory)
        loaded  == loadEffect(written)
        mem     == [boards |-> loaded.boards, columns |-> loaded.columns,
                    tasks |-> loaded.tasks, currentBoardId |-> loaded.currentBoardId]
    IN  [phase |-> loaded.phase, memory |-> mem,
         storage |-> saveOnChange(written, noMemory, mem)]

\* The effects of a mount of KanbanBoard, in their order: the load effect
\* reads, the save effects write the state of the first render (empty), and
\* after the render with the loaded state the save effects write again.  An
\* effect that throws ends the effects of the mount; a render that throws
\* ends the application after the first effects ran.
mountEffects(st) ==
    LET loaded  == loadEffect(st)
        written == saveOnMount(st, noMemory)
        mem     == [boards |-> loaded.boards, columns |-> loaded.columns,
                    tasks |-> loaded.tasks, currentBoardId |-> loaded.currentBoardId]
        resaved == saveOnChange(written, noMemory, mem)
    IN  [phase |-> loaded.phase,
         memory |-> IF loaded.phase = "crashed" THEN noMemory ELSE mem,
         storage |->
            IF loaded.phase = "running" THEN resaved
            ELSE IF loaded.phase = "nonlist"
                 THEN [resaved EXCEPT
                         !.kanban_columns = IF loaded.storedColumns.kind # "list"
                                            THEN loaded.storedColumns ELSE @,
                         !.kanban_tasks = IF loaded.storedTasks.kind # "list"
                                          THEN loaded.storedTasks ELSE @]
                 ELSE IF loaded.inEffect THEN st ELSE written]

\* AuthScreen's reads of localStorage.
getAdminPassword(st) ==
    getLocalStorageItem(st.kanban_admin_password, jsonString(DEFAULT_ADMIN_PASSWORD)).text

\* A slip: the flag is taken as set.
passwordChangeAssumed(st) == TRUE

hasPasswordBeenChanged(st) ==
    getLocalStorageItem(st.kanban_password_changed, jsonBool(FALSE)).flag

\* A slip: the shortest new password accepted has five characters.
changeRejectedBelowFive(st, currentPassword, newPassword, confirmNewPassword) ==
    \/ currentPassword # getAdminPassword(st)
    \/ Len(newPassword) < 5
    \/ newPassword # confirmNewPassword

\* handleChangePassword's three checks: whether the change is rejected.
changeRejected(st, currentPassword, newPassword, confirmNewPassword) ==
    \/ currentPassword # getAdminPassword(st)
    \/ Len(newPassword) < 6
    \/ newPassword # confirmNewPassword

\* A slip: a session is taken as stored.
storedAdminStatusAssumed(st) == TRUE

\* App's and AuthScreen's read of the session flag.
storedAdminStatus(st) == getLocalStorageItem(st.kanban_isAdmin, jsonBool(FALSE)).flag

\* AuthScreen's mount effect: whether the password-change form is shown at once.
initialShowPasswordChange(st) ==
    /\ storedAdminStatus(st)
    /\ ~hasPasswordBeenChanged(st)
    /\ getAdminPassword(st) = DEFAULT_ADMIN_PASSWORD

----------------------------------------------------------------------------
(* The modal.  showModal and modalContent are always set together          *)
(* (openModal, closeModal), so one variable holds both: kind "none" is     *)
(* showModal = false.  The element kept in modalContent closes over the    *)
(* render it was created in; the record keeps what its callbacks read from *)
(* that render.                                                            *)

noModal ==
    [kind |-> "none", id |-> Null, currentBoardId |-> Null,
     columns |-> <<>>, tasks |-> <<>>, isAdmin |-> FALSE]

\* <ConfirmModal> of deleteBoard, deleteColumn and deleteTask: closes over the id.
confirmModal(kind, id) == [noModal EXCEPT !.kind = kind, !.id = id]

\* <PromptModal> of addColumn: closes over currentBoardId and columns.
addColumnModal ==
    [noModal EXCEPT !.kind = "addColumn", !.currentBoardId = currentBoardId,
                    !.columns = columns]

\* <PromptModal> of addTask: closes over columnId, currentBoardId and tasks.
addTaskModal(columnId) ==
    [noModal EXCEPT !.kind = "addTask", !.id = columnId,
                    !.currentBoardId = currentBoardId, !.tasks = tasks]

\* <TaskDetailModal task=... isAdmin=...>: the props are those of the click.
taskDetailModal(taskId) ==
    [noModal EXCEPT !.kind = "taskDetail", !.id = taskId, !.isAdmin = isAdmin]

----------------------------------------------------------------------------
(* What is on screen. *)

\* KanbanBoard is rendered on the board page only, and takes events once its
\* mount went through.
mounted == currentPage = "board" /\ phase = "running"

\* The modals are portals covering the viewport (fixed inset-0 z-50): while
\* one is shown, pointer gestures (click on a card, drag, drop) cannot reach
\* the board under it.  Buttons, inputs and the select stay reachable by
\* keyboard.
noOverlay == modalContent.kind = "none" /\ ~showBoardManagementModal

boardIds == {boards[i].id : i \in 1..Len(boards)}

\* The columns rendered: those of the current board.
renderedColumns ==
    IF currentBoardId = Null THEN {}
    ELSE {columns[i].id : i \in {j \in 1..Len(columns) : columns[j].boardId = currentBoardId}}

\* The task cards rendered: the tasks of the rendered columns.
renderedTasks == {i \in 1..Len(tasks) : tasks[i].columnId \in renderedColumns}

----------------------------------------------------------------------------
(* History: the handler that ran last, with its arguments and the state it *)
(* ran in.  For a handler of AuthScreen, `auth` names it, `typed` is what  *)
(* the form held and `storage` is localStorage as the handler found it.    *)
(* `kept` is the state KanbanBoard had when it last left the screen, until *)
(* the step after it is back; `remount` marks the step that brought it     *)
(* back.  `columnGesture` says that the handler before this one was        *)
(* handleColumnDragStart, `taskGesture` that it was handleDragStart.       *)
(* `requestBoardId` is the currentBoardId an onConfirm closes over and     *)
(* `updates` the title, description and status handleSave passes on.       *)

noCall ==
    [op |-> "none", id |-> Null, text |-> <<>>, target |-> <<>>, dragged |-> <<>>,
     draggedColumn |-> <<>>, isAdmin |-> FALSE, boards |-> <<>>, columns |-> <<>>,
     tasks |-> <<>>, currentBoardId |-> Null, auth |-> "none", typed |-> <<>>,
     storage |-> emptyStorage, kept |-> noMemory, remount |-> FALSE,
     columnGesture |-> FALSE, taskGesture |-> FALSE, requestBoardId |-> Null,
     updates |-> <<>>]

call(op, id, text, target) ==
    [noCall EXCEPT !.op = op, !.id = id, !.text = text, !.target = target,
                   !.dragged = draggedTask, !.draggedColumn = draggedColumn,
                   !.isAdmin = isAdmin, !.boards = boards, !.columns = columns,
                   !.tasks = tasks, !.currentBoardId = currentBoardId,
                   !.columnGesture = (last.op = "handleColumnDragStart"),
                   !.taskGesture = (last.op = "handleDragStart")]

authCall(handler, typed) ==
    [noCall EXCEPT !.auth = handler, !.typed = typed, !.storage = storage,
                   !.kept = last.kept]

----------------------------------------------------------------------------
(* App: pages and the session. *)

\* A browser profile that never ran the application, once the first mount of
\* App and KanbanBoard has run its effects.
Init ==
    /\ isAdmin = FALSE
    /\ currentPage = "board"
    /\ boards = <<>>
    /\ currentBoardId = Null
    /\ columns = <<>>
    /\ tasks = <<>>
    /\ modalContent = noModal
    /\ showBoardManagementModal = FALSE
    /\ draggedTask = <<>>
    /\ draggedColumn = <<>>
    /\ showPasswordChange = FALSE
    /\ storage = mountEffects(emptyStorage).storage
    /\ phase = "running"
    /\ now = 0
    /\ edits = 0
    /\ last = noCall

\* KanbanBoard leaves the screen: its state is gone.  Nothing is written.
unmountBoard ==
    /\ boards' = <<>>
    /\ columns' = <<>>
    /\ tasks' = <<>>
    /\ currentBoardId' = Null
    /\ modalContent' = noModal
    /\ showBoardManagementModal' = FALSE
    /\ draggedTask' = <<>>
    /\ draggedColumn' = <<>>

\* KanbanBoard comes on screen with fresh state and runs its effects on the
\* localStorage it finds.
mountBoard(st) ==
    /\ boards' = mountEffects(st).memory.boards
    /\ columns' = mountEffects(st).memory.columns
    /\ tasks' = mountEffects(st).memory.tasks
    /\ currentBoardId' = currentBoardEffect(mountEffects(st).memory.boards,
                                            mountEffects(st).memory.currentBoardId)
    /\ storage' = mountEffects(st).storage
    /\ phase' = mountEffects(st).phase
    /\ modalContent' = noModal
    /\ showBoardManagementModal' = FALSE
    /\ draggedTask' = <<>>
    /\ draggedColumn' = <<>>

\* The "Admin Login" button of the header (shown to viewers): AuthScreen
\* replaces KanbanBoard and runs its mount effect.
navigateToLogin ==
    /\ mounted /\ ~isAdmin
    /\ currentPage' = "login"
    /\ unmountBoard
    /\ showPasswordChange' = initialShowPasswordChange(storage)
    /\ last' = [noCall EXCEPT !.kept = memory]
    /\ UNCHANGED <<isAdmin, storage, phase, now, edits>>

\* "Zurueck zum Board (Viewer)" on the login page (not shown with the
\* password-change form).
navigateToBoard ==
    /\ currentPage = "login" /\ ~showPasswordChange
    /\ currentPage' = "board"
    /\ mountBoard(storage)
    /\ showPasswordChange' = FALSE
    /\ last' = [noCall EXCEPT !.kept = last.kept, !.remount = TRUE]
    /\ UNCHANGED <<isAdmin, now, edits>>

\* handleLoginSuccess(), called by AuthScreen with localStorage as its caller
\* left it: the session flag is set and stored, KanbanBoard replaces AuthScreen.
handleLoginSuccess(st) ==
    /\ isAdmin' = TRUE
    /\ currentPage' = "board"
    /\ mountBoard([st EXCEPT !.kanban_isAdmin = jsonBool(TRUE)])
    /\ showPasswordChange' = FALSE

\* handleLogin: the login form is submitted with username and password.
handleLogin(username, password) ==
    /\ currentPage = "login" /\ ~showPasswordChange
    /\ IF username = ADMIN_USERNAME /\ password = getAdminPassword(storage)
       THEN IF password = DEFAULT_ADMIN_PASSWORD /\ ~hasPasswordBeenChanged(storage)
            THEN /\ showPasswordChange' = TRUE
                 /\ last' = authCall("handleLogin", <<username, password>>)
                 /\ UNCHANGED <<isAdmin, currentPage, boards, currentBoardId, columns,
                                tasks, modalContent, showBoardManagementModal,
                                draggedTask, draggedColumn, storage, phase>>
            ELSE /\ handleLoginSuccess(storage)
                 /\ last' = [authCall("handleLogin", <<username, password>>)
                                EXCEPT !.remount = TRUE]
       ELSE /\ last' = authCall("handleLogin", <<username, password>>)
            /\ UNCHANGED <<isAdmin, currentPage, boards, currentBoardId, columns, tasks,
                           modalContent, showBoardManagementModal, draggedTask,
                           draggedColumn, showPasswordChange, storage, phase>>
    /\ UNCHANGED <<now, edits>>

\* handleChangePassword: the password-change form is submitted.
handleChangePassword(currentPassword, newPassword, confirmNewPassword) ==
    /\ currentPage = "login" /\ showPasswordChange
    /\ IF changeRejected(storage, currentPassword, newPassword, confirmNewPassword)
       THEN /\ last' = authCall("handleChangePassword",
                           <<currentPassword, newPassword, confirmNewPassword>>)
            /\ UNCHANGED <<isAdmin, currentPage, boards, currentBoardId, columns, tasks,
                           modalContent, showBoardManagementModal, draggedTask,
                           draggedColumn, showPasswordChange, storage, phase>>
       ELSE /\ handleLoginSuccess(
                   [storage EXCEPT !.kanban_admin_password = jsonString(newPassword),
                                   !.kanban_password_changed = jsonBool(TRUE)])
            /\ last' = [authCall("handleChangePassword",
                            <<currentPassword, newPassword, confirmNewPassword>>)
                           EXCEPT !.remount = TRUE]
    /\ UNCHANGED <<now, edits>>

\* The "Abmelden" button of the header (shown to admins); KanbanBoard stays mounted.
handleLogout ==
    /\ mounted /\ isAdmin
    /\ isAdmin' = FALSE
    /\ storage' = [storage EXCEPT !.kanban_isAdmin = jsonBool(FALSE)]
    /\ last' = noCall
    /\ UNCHANGED <<currentPage, boards, currentBoardId, columns, tasks, modalContent,
                   showBoardManagementModal, draggedTask, draggedColumn,
                   showPasswordChange, phase, now, edits>>

\* The page is loaded again: App and the page it shows are built anew from
\* localStorage (lines 37-46, 93-97).
reload ==
    /\ phase = "running"
    /\ isAdmin' = storedAdminStatus(storage)
    /\ currentPage' = "board"
    /\ mountBoard(storage)
    /\ showPasswordChange' = FALSE
    /\ last' = [noCall EXCEPT !.kept = IF mounted THEN memory ELSE last.kept,
                              !.remount = TRUE]
    /\ UNCHANGED <<now, edits>>

----------------------------------------------------------------------------
(* Modals. *)

\* closeModal, as onCancel of a confirm or prompt modal or onClose of the task detail.
closeModal ==
    /\ modalContent.kind # "none"
    /\ modalContent' = noModal
    /\ last' = noCall
    /\ UNCHANGED <<isAdmin, currentPage, boards, currentBoardId, columns, tasks,
                   showBoardManagementModal, draggedTask, draggedColumn, now, edits>>
    /\ storage' = saveOnChange(storage, memory, memory')
    /\ UNCHANGED <<showPasswordChange, phase>>

\* "Boards verwalten" (shown to admins).
openBoardManagement ==
    /\ mounted /\ isAdmin /\ ~showBoardManagementModal
    /\ showBoardManagementModal' = TRUE
    /\ last' = noCall
    /\ UNCHANGED <<isAdmin, currentPage, boards, currentBoardId, columns, tasks,
                   modalContent, draggedTask, draggedColumn, now, edits>>
    /\ storage' = saveOnChange(storage, memory, memory')
    /\ UNCHANGED <<showPasswordChange, phase>>

closeBoardManagement ==
    /\ showBoardManagementModal
    /\ showBoardManagementModal' = FALSE
    /\ last' = noCall
    /\ UNCHANGED <<isAdmin, currentPage, boards, currentBoardId, columns, tasks,
                   modalContent, draggedTask, draggedColumn, now, edits>>
    /\ storage' = saveOnChange(storage, memory, memory')
    /\ UNCHANGED <<showPasswordChange, phase>>

----------------------------------------------------------------------------
(* Boards. *)

\* The header's <select>: any listed board.
selectBoard(boardId) ==
    /\ mounted /\ boardId \in boardIds
    /\ currentBoardId' = currentBoardEffect(boards, boardId)
    /\ last' = noCall
    /\ UNCHANGED <<isAdmin, currentPage, boards, columns, tasks, modalContent,
                   showBoardManagementModal, draggedTask, draggedColumn, now, edits>>
    /\ storage' = saveOnChange(storage, memory, memory')
    /\ UNCHANGED <<showPasswordChange, phase>>

\* A click on a board card of the management modal: select and close.
selectBoardCard(boardId) ==
    /\ showBoardManagementModal /\ modalContent.kind = "none"
    /\ boardId \in boardIds
    /\ currentBoardId' = currentBoardEffect(boards, boardId)
    /\ showBoardManagementModal' = FALSE
    /\ last' = noCall
    /\ UNCHANGED <<isAdmin, currentPage, boards, columns, tasks, modalContent,
                   draggedTask, draggedColumn, now, edits>>
    /\ storage' = saveOnChange(storage, memory, memory')
    /\ UNCHANGED <<showPasswordChange, phase>>

\* handleAddBoard of the management modal (its form is shown to admins), which
\* calls addBoard(name) unless the name is blank; t is the reading of Date.now().
addBoard(name, t) ==
    /\ showBoardManagementModal /\ isAdmin
    /\ IF trim(name) = <<>>
       THEN /\ last' = noCall
            /\ UNCHANGED <<boards, currentBoardId, now>>
       ELSE /\ t <= MaxClock
            /\ boards' = Append(boards, newBoard(t, name))
            /\ currentBoardId' = currentBoardEffect(boards', t)
            /\ now' = t
            /\ last' = call("addBoard", t, name, <<>>)
    /\ UNCHANGED <<isAdmin, currentPage, columns, tasks, modalContent,
                   showBoardManagementModal, draggedTask, draggedColumn, edits>>
    /\ storage' = saveOnChange(storage, memory, memory')
    /\ UNCHANGED <<showPasswordChange, phase>>

\* deleteBoard(boardId): the trash button of a board card opens the confirmation.
deleteBoard(boardId) ==
    /\ showBoardManagementModal /\ isAdmin
    /\ boardId \in boardIds
    /\ modalContent' = confirmModal("deleteBoard", boardId)
    /\ last' = noCall
    /\ UNCHANGED <<isAdmin, currentPage, boards, currentBoardId, columns, tasks,
                   showBoardManagementModal, draggedTask, draggedColumn, now, edits>>
    /\ storage' = saveOnChange(storage, memory, memory')
    /\ UNCHANGED <<showPasswordChange, phase>>

\* onConfirm of deleteBoard's modal.
deleteBoardConfirm ==
    /\ modalContent.kind = "deleteBoard"
    /\ boards' = deleteBoardBoards(boards, modalContent.id)
    /\ columns' = deleteBoardColumns(columns, modalContent.id)
    /\ tasks' = deleteBoardTasks(tasks, modalContent.id)
    /\ modalContent' = noModal
    /\ currentBoardId' = currentBoardEffect(boards', currentBoardId)
    /\ last' = call("deleteBoard", modalContent.id, <<>>, <<>>)
    /\ UNCHANGED <<isAdmin, currentPage, showBoardManagementModal, draggedTask,
                   draggedColumn, now, edits>>
    /\ storage' = saveOnChange(storage, memory, memory')
    /\ UNCHANGED <<showPasswordChange, phase>>

----------------------------------------------------------------------------
(* Columns. *)

\* addColumn(): "Spalte hinzufuegen" (shown to admins while a board is selected)
\* opens the prompt.
addColumn ==
    /\ mounted /\ isAdmin /\ currentBoardId # Null
    /\ modalContent' = addColumnModal
    /\ last' = noCall
    /\ UNCHANGED <<isAdmin, currentPage, boards, currentBoardId, columns, tasks,
                   showBoardManagementModal, draggedTask, draggedColumn, now, edits>>
    /\ storage' = saveOnChange(storage, memory, memory')
    /\ UNCHANGED <<showPasswordChange, phase>>

\* onConfirm(name) of addColumn's prompt; currentBoardId and columns are those
\* of the render that opened it.  t is the reading of Date.now().
addColumnConfirm(name, t) ==
    /\ modalContent.kind = "addColumn"
    /\ IF name # <<>> /\ trim(name) # <<>> /\ modalContent.currentBoardId # Null
       THEN /\ t <= MaxClock
            /\ columns' = Append(columns,
                   newColumn(t, name, modalContent.currentBoardId,
                       nextOrder(columnsOfBoard(modalContent.columns,
                                                modalContent.currentBoardId))))
            /\ now' = t
       ELSE UNCHANGED <<columns, now>>
    /\ modalContent' = noModal
    /\ last' = [call("addColumn", modalContent.currentBoardId, name, <<>>)
                   EXCEPT !.requestBoardId = modalContent.currentBoardId]
    /\ UNCHANGED <<isAdmin, currentPage, boards, currentBoardId, tasks,
                   showBoardManagementModal, draggedTask, draggedColumn, edits>>
    /\ storage' = saveOnChange(storage, memory, memory')
    /\ UNCHANGED <<showPasswordChange, phase>>

\* updateColumnName(columnId, newName): onChange of a column's name input
\* (shown to admins).
updateColumnName(columnId, newName) ==
    /\ mounted /\ isAdmin /\ columnId \in renderedColumns
    /\ IF trim(newName) = <<>>
       THEN UNCHANGED <<columns, edits>>
       ELSE /\ edits < MaxEdits
            /\ edits' = edits + 1
            /\ columns' = renameColumn(columns, columnId, newName)
    /\ last' = call("updateColumnName", columnId, newName, <<>>)
    /\ UNCHANGED <<isAdmin, currentPage, boards, currentBoardId, tasks, modalContent,
                   showBoardManagementModal, draggedTask, draggedColumn, now>>
    /\ storage' = saveOnChange(storage, memory, memory')
    /\ UNCHANGED <<showPasswordChange, phase>>

\* A slip: the column is removed by the request, before any confirmation.
deleteColumnAtOnce(columnId) ==
    /\ mounted /\ isAdmin /\ columnId \in renderedColumns
    /\ modalContent' = confirmModal("deleteColumn", columnId)
    /\ columns' = deleteColumnColumns(columns, columnId)
    /\ tasks' = deleteColumnTasks(tasks, columnId)
    /\ last' = noCall
    /\ UNCHANGED <<isAdmin, currentPage, boards, currentBoardId,
                   showBoardManagementModal, draggedTask, draggedColumn, now, edits>>
    /\ storage' = saveOnChange(storage, memory, memory')
    /\ UNCHANGED <<showPasswordChange, phase>>

\* deleteColumn(columnId): the trash button of a column (shown to admins).
deleteColumn(columnId) ==
    /\ mounted /\ isAdmin /\ columnId \in renderedColumns
    /\ modalContent' = confirmModal("deleteColumn", columnId)
    /\ last' = noCall
    /\ UNCHANGED <<isAdmin, currentPage, boards, currentBoardId, columns, tasks,
                   showBoardManagementModal, draggedTask, draggedColumn, now, edits>>
    /\ storage' = saveOnChange(storage, memory, memory')
    /\ UNCHANGED <<showPasswordChange, phase>>

\* onConfirm of deleteColumn's modal.
deleteColumnConfirm ==
    /\ modalContent.kind = "deleteColumn"
    /\ columns' = deleteColumnColumns(columns, modalContent.id)
    /\ tasks' = deleteColumnTasks(tasks, modalContent.id)
    /\ modalContent' = noModal
    /\ last' = call("deleteColumn", modalContent.id, <<>>, <<>>)
    /\ UNCHANGED <<isAdmin, currentPage, boards, currentBoardId,
                   showBoardManagementModal, draggedTask, draggedColumn, now, edits>>
    /\ storage' = saveOnChange(storage, memory, memory')
    /\ UNCHANGED <<showPasswordChange, phase>>

----------------------------------------------------------------------------
(* Tasks. *)

\* addTask(columnId): "Aufgabe hinzufuegen" of a column (shown to admins).
addTask(columnId) ==
    /\ mounted /\ isAdmin /\ columnId \in renderedColumns
    /\ modalContent' = addTaskModal(columnId)
    /\ last' = noCall
    /\ UNCHANGED <<isAdmin, currentPage, boards, currentBoardId, columns, tasks,
                   showBoardManagementModal, draggedTask, draggedColumn, now, edits>>
    /\ storage' = saveOnChange(storage, memory, memory')
    /\ UNCHANGED <<showPasswordChange, phase>>

\* onConfirm(title) of addTask's prompt; tasks and currentBoardId are those of
\* the render that opened it.  t is the reading of Date.now().
addTaskConfirm(title, t) ==
    /\ modalContent.kind = "addTask"
    /\ IF title # <<>> /\ trim(title) # <<>>
       THEN /\ t <= MaxClock
            /\ tasks' = Append(tasks,
                   newTask(t, title, modalContent.id, modalContent.currentBoardId,
                       nextOrder(tasksInColumn(modalContent.tasks, modalContent.id))))
            /\ now' = t
       ELSE UNCHANGED <<tasks, now>>
    /\ modalContent' = noModal
    /\ last' = [call("addTask", modalContent.id, title, <<>>)
                   EXCEPT !.requestBoardId = modalContent.currentBoardId]
    /\ UNCHANGED <<isAdmin, currentPage, boards, currentBoardId, columns,
                   showBoardManagementModal, draggedTask, draggedColumn, edits>>
    /\ storage' = saveOnChange(storage, memory, memory')
    /\ UNCHANGED <<showPasswordChange, phase>>

\* A click on a task card opens its detail view, for admins and viewers.
openTaskDetail(i) ==
    /\ mounted /\ noOverlay /\ i \in renderedTasks
    /\ modalContent' = taskDetailModal(tasks[i].id)
    /\ last' = noCall
    /\ UNCHANGED <<isAdmin, currentPage, boards, currentBoardId, columns, tasks,
                   showBoardManagementModal, draggedTask, draggedColumn, now, edits>>
    /\ storage' = saveOnChange(storage, memory, memory')
    /\ UNCHANGED <<showPasswordChange, phase>>

\* handleSave of the task detail (its form is shown when the isAdmin prop is
\* true), which calls updateTask(task.id, { title, description, status }).
updateTask(title, description, status) ==
    /\ modalContent.kind = "taskDetail" /\ modalContent.isAdmin
    /\ edits < MaxEdits
    /\ edits' = edits + 1
    /\ tasks' = mergeTask(tasks, modalContent.id, title, description, status)
    /\ last' = [call("updateTask", modalContent.id, title, <<>>)
                   EXCEPT !.updates = <<title, description, status>>]
    /\ UNCHANGED <<isAdmin, currentPage, boards, currentBoardId, columns, modalContent,
                   showBoardManagementModal, draggedTask, draggedColumn, now>>
    /\ storage' = saveOnChange(storage, memory, memory')
    /\ UNCHANGED <<showPasswordChange, phase>>

\* deleteTask(taskId), the onDelete of the task detail (its button is shown when
\* the isAdmin prop is true): opens the confirmation.
deleteTask ==
    /\ modalContent.kind = "taskDetail" /\ modalContent.isAdmin
    /\ modalContent' = confirmModal("deleteTask", modalContent.id)
    /\ last' = noCall
    /\ UNCHANGED <<isAdmin, currentPage, boards, currentBoardId, columns, tasks,
                   showBoardManagementModal, draggedTask, draggedColumn, now, edits>>
    /\ storage' = saveOnChange(storage, memory, memory')
    /\ UNCHANGED <<showPasswordChange, phase>>

\* onConfirm of deleteTask's modal.
deleteTaskConfirm ==
    /\ modalContent.kind = "deleteTask"
    /\ tasks' = deleteTaskTasks(tasks, modalContent.id)
    /\ modalContent' = noModal
    /\ last' = call("deleteTask", modalContent.id, <<>>, <<>>)
    /\ UNCHANGED <<isAdmin, currentPage, boards, currentBoardId, columns,
                   showBoardManagementModal, draggedTask, draggedColumn, now, edits>>
    /\ storage' = saveOnChange(storage, memory, memory')
    /\ UNCHANGED <<showPasswordChange, phase>>

\* The "Loeschen" button of the task detail (shown when the isAdmin prop is
\* true): onClick is `onDelete(task.id); onClose();`, that is deleteTask, which
\* opens the confirmation, and then closeModal, in one event.
taskDetailDelete ==
    /\ modalContent.kind = "taskDetail" /\ modalContent.isAdmin
    /\ modalContent' = noModal
    /\ last' = call("taskDetailDelete", modalContent.id, <<>>, <<>>)
    /\ UNCHANGED <<isAdmin, currentPage, boards, currentBoardId, columns, tasks,
                   showBoardManagementModal, draggedTask, draggedColumn, now, edits>>
    /\ storage' = saveOnChange(storage, memory, memory')
    /\ UNCHANGED <<showPasswordChange, phase>>

----------------------------------------------------------------------------
(* Drag and drop. *)

\* handleDragStart(e, task) on a task card.  Of the remembered task, handleDrop
\* reads id and columnId only, and only these are kept.
handleDragStart(i) ==
    /\ mounted /\ noOverlay /\ i \in renderedTasks
    /\ isAdmin
    /\ draggedTask' = <<[id |-> tasks[i].id, columnId |-> tasks[i].columnId]>>
    /\ last' = call("handleDragStart", tasks[i].id, <<>>, <<>>)
    /\ UNCHANGED <<isAdmin, currentPage, boards, currentBoardId, columns, tasks,
                   modalContent, showBoardManagementModal, draggedColumn, now, edits>>
    /\ storage' = saveOnChange(storage, memory, memory')
    /\ UNCHANGED <<showPasswordChange, phase>>

\* handleDrop(e, targetColumnId, targetTask) on a rendered column; targetTask
\* is <<>> (null) or <<id>> of a task shown in that column.
handleDrop(targetColumnId, targetTask) ==
    /\ mounted /\ noOverlay /\ targetColumnId \in renderedColumns
    /\ last' = call("handleDrop", targetColumnId, <<>>, targetTask)
    /\ IF ~isAdmin \/ draggedTask = <<>>
       THEN UNCHANGED <<tasks, draggedTask>>
       ELSE LET sourceColumnId == draggedTask[1].columnId
                taskId         == draggedTask[1].id
                draggedIndex   == findIndex(sortedColumn(tasks, targetColumnId), taskId)
            IN  IF sourceColumnId = targetColumnId
                THEN IF draggedIndex = -1
                     THEN UNCHANGED <<tasks, draggedTask>>
                     ELSE /\ tasks' = reorderSameColumn(tasks, targetColumnId,
                                                         draggedIndex, targetTask)
                          /\ draggedTask' = <<>>
                ELSE /\ tasks' = moveToColumn(tasks, taskId, sourceColumnId,
                                               targetColumnId)
                     /\ draggedTask' = <<>>
    /\ UNCHANGED <<isAdmin, currentPage, boards, currentBoardId, columns, modalContent,
                   showBoardManagementModal, draggedColumn, now, edits>>
    /\ storage' = saveOnChange(storage, memory, memory')
    /\ UNCHANGED <<showPasswordChange, phase>>

\* handleColumnDragStart(e, column) on a rendered column; handleColumnDrop reads
\* the id of the remembered column only.
handleColumnDragStart(columnId) ==
    /\ mounted /\ noOverlay /\ columnId \in renderedColumns
    /\ isAdmin
    /\ draggedColumn' = <<[id |-> columnId]>>
    /\ last' = call("handleColumnDragStart", columnId, <<>>, <<>>)
    /\ UNCHANGED <<isAdmin, currentPage, boards, currentBoardId, columns, tasks,
                   modalContent, showBoardManagementModal, draggedTask, now, edits>>
    /\ storage' = saveOnChange(storage, memory, memory')
    /\ UNCHANGED <<showPasswordChange, phase>>

\* handleColumnDrop(e, targetColumn) with a rendered column as the target.
handleColumnDrop(targetColumnId) ==
    /\ mounted /\ noOverlay /\ targetColumnId \in renderedColumns
    /\ last' = call("handleColumnDrop", targetColumnId, <<>>, <<>>)
    /\ IF ~isAdmin \/ draggedColumn = <<>> \/ draggedColumn[1].id = targetColumnId
       THEN UNCHANGED <<columns, draggedColumn>>
       ELSE LET sorted      == sortByOrder(columnsOfBoard(columns, currentBoardId))
                sourceIndex == findIndex(sorted, draggedColumn[1].id)
                targetIndex == findIndex(sorted, targetColumnId)
            IN  IF sourceIndex = -1 \/ targetIndex = -1
                THEN UNCHANGED <<columns, draggedColumn>>
                ELSE /\ columns' =
                            SelectSeq(columns, LAMBDA c : c.boardId # currentBoardId)
                            \o reorderColumns(columns, currentBoardId,
                                              sourceIndex, targetIndex)
                     /\ draggedColumn' = <<>>
    /\ UNCHANGED <<isAdmin, currentPage, boards, currentBoardId, tasks, modalContent,
                   showBoardManagementModal, draggedTask, now, edits>>
    /\ storage' = saveOnChange(storage, memory, memory')
    /\ UNCHANGED <<showPasswordChange, phase>>

----------------------------------------------------------------------------
(* The specifications.  Two creations are two user gestures (open the      *)
(* prompt, type, confirm): each reads the clock later than the one before. *)

\* The drop targets of a column: the column itself, or a task shown in it.
dropTargets(columnId) ==
    {<<>>} \cup {<<tasks[i].id>> : i \in {j \in 1..Len(tasks) : tasks[j].columnId = columnId}}

\* The events that the rendered elements are wired to, but the creations:
\* the session, the modals, boards, columns, tasks and the dragging of tasks.
\* A drop is wired as handleDrop(e, column.id), without a target task.
NextWired ==
    \/ navigateToLogin
    \/ navigateToBoard
    \/ \E username \in Usernames, password \in Passwords : handleLogin(username, password)
    \/ \E currentPassword \in Passwords, newPassword \in NewPasswords,
          confirmNewPassword \in NewPasswords :
           handleChangePassword(currentPassword, newPassword, confirmNewPassword)
    \/ handleLogout
    \/ reload
    \/ closeModal
    \/ openBoardManagement
    \/ closeBoardManagement
    \/ \E b \in boardIds : selectBoard(b)
    \/ \E b \in boardIds : selectBoardCard(b)
    \/ \E b \in boardIds : deleteBoard(b)
    \/ deleteBoardConfirm
    \/ addColumn
    \/ \E c \in renderedColumns : deleteColumn(c)
    \/ deleteColumnConfirm
    \/ \E c \in renderedColumns : addTask(c)
    \/ \E i \in renderedTasks : openTaskDetail(i)
    \/ \E i \in renderedTasks : handleDragStart(i)
    \/ \E c \in renderedColumns : handleDrop(c, <<>>)

\* The same with the operations as such: deleteTask(taskId) with its
\* confirmation, and handleDrop with a target task.
NextOther ==
    \/ NextWired
    \/ deleteTask
    \/ deleteTaskConfirm
    \/ \E c \in renderedColumns : \E target \in dropTargets(c) \ {<<>>} : handleDrop(c, target)

\* The three creations, each reading the clock later than the one before.
Next ==
    \/ NextOther
    \/ \E name \in Strings : addBoard(name, now + 1)
    \/ \E name \in Strings : addColumnConfirm(name, now + 1)
    \/ \E title \in Strings : addTaskConfirm(title, now + 1)

Spec == Init /\ [][Next]_vars

\* Every operation at once, the in-place edits of column names and tasks and
\* handleColumnDrop included, with fewer creations.
NextEdit ==
    \/ NextOther
    \/ now < MaxEditClock /\ \E name \in Strings : addBoard(name, now + 1)
    \/ now < MaxEditClock /\ \E name \in Strings : addColumnConfirm(name, now + 1)
    \/ now < MaxEditClock /\ \E title \in Strings : addTaskConfirm(title, now + 1)
    \/ \E c \in renderedColumns : handleColumnDragStart(c)
    \/ \E c \in renderedColumns : handleColumnDrop(c)
    \/ \E c \in renderedColumns, newName \in EditStrings : updateColumnName(c, newName)
    \/ \E title \in EditedText, description \in EditedText, status \in Statuses :
           updateTask(title, description, status)

SpecEdit == Init /\ [][NextEdit]_vars

\* What Date.now() may return once it has returned `now`: a later reading,
\* or the same reading again (calls within one tick of the clock, or a clock
\* that was set back).  The same reading is taken while fewer than MaxClock
\* records exist.
readings ==
    {now + 1} \cup
    (IF now >= 1 /\ Len(boards) + Len(columns) + Len(tasks) < MaxClock THEN {now} ELSE {})

\* Logging in and creating boards, columns and tasks, with such readings.
NextSameClock ==
    \/ navigateToLogin
    \/ \E username \in Usernames, password \in Passwords : handleLogin(username, password)
    \/ \E currentPassword \in Passwords, newPassword \in NewPasswords,
          confirmNewPassword \in NewPasswords :
           handleChangePassword(currentPassword, newPassword, confirmNewPassword)
    \/ openBoardManagement
    \/ closeBoardManagement
    \/ closeModal
    \/ addColumn
    \/ \E c \in renderedColumns : addTask(c)
    \/ \E name \in Strings, t \in readings : addBoard(name, t)
    \/ \E name \in Strings, t \in readings : addColumnConfirm(name, t)
    \/ \E title \in Strings, t \in readings : addTaskConfirm(title, t)

SpecSameClock == Init /\ [][NextSameClock]_vars

\* The boards, columns and tasks there are.
records == Len(boards) + Len(columns) + Len(tasks)

\* The same creations, of at most MaxClock records, with the task drags and
\* drops of the columns.
NextSameClockDrop ==
    \/ navigateToLogin
    \/ \E username \in Usernames, password \in Passwords : handleLogin(username, password)
    \/ \E currentPassword \in Passwords, newPassword \in NewPasswords,
          confirmNewPassword \in NewPasswords :
           handleChangePassword(currentPassword, newPassword, confirmNewPassword)
    \/ openBoardManagement
    \/ closeBoardManagement
    \/ closeModal
    \/ addColumn
    \/ \E c \in renderedColumns : addTask(c)
    \/ records < MaxClock /\ \E name \in Strings, t \in readings : addBoard(name, t)
    \/ records < MaxClock /\ \E name \in Strings, t \in readings : addColumnConfirm(name, t)
    \/ records < MaxClock /\ \E title \in Strings, t \in readings : addTaskConfirm(title, t)
    \/ \E i \in renderedTasks : handleDragStart(i)
    \/ \E c \in renderedColumns : handleDrop(c, <<>>)

SpecSameClockDrop == Init /\ [][NextSameClockDrop]_vars

\* What localStorage may hold when the application starts: for each list no
\* entry, text that is not JSON, the JSON value null, or a list.
StoredBoards ==
    {absent, garbage, jsonNull, jsonList(<<>>), jsonList(<<newBoard(1, <<"a">>)>>),
     jsonList(<<newBoard(1, <<"a">>), newBoard(2, <<"a">>)>>)}

StoredColumns == {absent, garbage, jsonNull, jsonList(<<newColumn(3, <<"a">>, 1, 0)>>)}

StoredTasks == {absent, garbage, jsonNull, jsonList(<<newTask(4, <<"a">>, 3, 1, 0)>>)}

StoredCurrentBoardIds == {absent, garbage, jsonNull, jsonId(1), jsonId(2)}

\* App and KanbanBoard are rendered for the first time, their effects have
\* not run yet.
InitStartup ==
    /\ isAdmin = FALSE
    /\ currentPage = "board"
    /\ boards = <<>>
    /\ currentBoardId = Null
    /\ columns = <<>>
    /\ tasks = <<>>
    /\ modalContent = noModal
    /\ showBoardManagementModal = FALSE
    /\ draggedTask = <<>>
    /\ draggedColumn = <<>>
    /\ showPasswordChange = FALSE
    /\ storage \in {[emptyStorage EXCEPT !.kanban_boards = b, !.kanban_columns = c,
                                         !.kanban_tasks = t, !.kanban_currentBoardId = k] :
                        b \in StoredBoards, c \in StoredColumns, t \in StoredTasks,
                        k \in StoredCurrentBoardIds}
    /\ phase = "mounting"
    /\ now = 0
    /\ edits = 0
    /\ last = noCall

\* The mount effects of App (the session flag) and of KanbanBoard.
startup ==
    /\ phase = "mounting"
    /\ isAdmin' = storedAdminStatus(storage)
    /\ mountBoard(storage)
    /\ last' = [noCall EXCEPT !.op = "startup", !.storage = storage]
    /\ UNCHANGED <<currentPage, showPasswordChange, now, edits>>

NextStartup == startup

SpecStartup == InitStartup /\ [][NextStartup]_vars

\* The application as its elements are wired: the delete button of the task
\* detail, drops on a column without a target task, and the dragstart of a
\* column; handleColumnDrop is wired to no element (lines 929-936).
NextUI ==
    \/ NextWired
    \/ \E name \in Strings : addBoard(name, now + 1)
    \/ \E name \in Strings : addColumnConfirm(name, now + 1)
    \/ \E title \in Strings : addTaskConfirm(title, now + 1)
    \/ taskDetailDelete
    \/ \E c \in renderedColumns : handleColumnDragStart(c)

SpecUI == Init /\ [][NextUI]_vars

\* The wired events with the dragging of columns as handleColumnDragStart
\* and handleColumnDrop implement it.
NextColumnDrag ==
    \/ NextWired
    \/ \E name \in Strings : addBoard(name, now + 1)
    \/ \E name \in Strings : addColumnConfirm(name, now + 1)
    \/ \E title \in Strings : addTaskConfirm(title, now + 1)
    \/ \E c \in renderedColumns : handleColumnDragStart(c)
    \/ \E c \in renderedColumns : handleColumnDrop(c)

SpecColumnDrag == Init /\ [][NextColumnDrag]_vars

\* What is typed into the password fields where the session is looked at
\* alone: the default, two passwords long enough and one too short.
AuthPasswords == Passwords \cup {<<"s", "e", "c", "r", "e", "t", "s">>}

\* The session alone, with every password of AuthPasswords as the new one.
NextAuth ==
    \/ navigateToLogin
    \/ navigateToBoard
    \/ \E username \in Usernames, password \in AuthPasswords : handleLogin(username, password)
    \/ \E currentPassword \in AuthPasswords, newPassword \in AuthPasswords,
          confirmNewPassword \in AuthPasswords :
           handleChangePassword(currentPassword, newPassword, confirmNewPassword)
    \/ handleLogout
    \/ reload

SpecAuth == Init /\ [][NextAuth]_vars

----------------------------------------------------------------------------
(* Vocabulary of the properties. *)

elems(seq) == {seq[i] : i \in 1..Len(seq)}

idsOf(seq) == {seq[i].id : i \in 1..Len(seq)}

ordersOf(seq) == {seq[i].order : i \in 1..Len(seq)}

\* The column ids that columns or tasks mention.
columnIdsIn(cs, ts) == idsOf(cs) \cup {ts[i].columnId : i \in 1..Len(ts)}

\* The board ids that boards or columns mention.
boardIdsIn(bs, cs) == idsOf(bs) \cup {cs[i].boardId : i \in 1..Len(cs)}

\* The ids of a column's tasks in display order (sorted by order).
displayIds(ts, columnId) ==
    LET sorted == sortedColumn(ts, columnId)
    IN  [i \in 1..Len(sorted) |-> sorted[i].id]

\* A sequence of ids without one id.
withoutId(ids, id) == SelectSeq(ids, LAMBDA x : x # id)

\* The orders of a sequence of records are exactly 0..n-1.
dense(seq) ==
    /\ ordersOf(seq) = 0..(Len(seq) - 1)
    /\ \A i, j \in 1..Len(seq) : i # j => seq[i].order # seq[j].order

\* The last handler was handleDrop, run by an admin with a remembered task.
dropRan == last.op = "handleDrop" /\ last.isAdmin /\ last.dragged # <<>>

\* ... and the remembered task was among the tasks of its remembered column.
dropFound ==
    /\ dropRan
    /\ some(tasksInColumn(last.tasks, last.dragged[1].columnId), last.dragged[1].id)

sameColumnDrop == dropRan /\ last.dragged[1].columnId = last.id

crossColumnDrop == dropRan /\ last.dragged[1].columnId # last.id

----------------------------------------------------------------------------
(* Order values. *)

\* C1: in every reachable state, the order values of the tasks of every
\* column are exactly 0..n-1, n the number of tasks of the column.
C1_TaskOrdersDense ==
    \A c \in columnIdsIn(columns, tasks) : dense(tasksInColumn(tasks, c))

\* C2: in every reachable state, the order values of the columns of every
\* board are exactly 0..n-1, n the number of columns of the board.
C2_ColumnOrdersDense ==
    \A b \in boardIdsIn(boards, columns) : dense(columnsOfBoard(columns, b))

----------------------------------------------------------------------------
(* Referential integrity. *)

\* C3: in every reachable state every column's boardId is the id of a board,
\* every task's columnId is the id of a column, and every task's boardId is
\* the boardId of the column it is in.
C3_ReferentialIntegrity ==
    /\ \A i \in 1..Len(columns) : columns[i].boardId \in idsOf(boards)
    /\ \A i \in 1..Len(tasks) :
           \E j \in 1..Len(columns) :
               /\ columns[j].id = tasks[i].columnId
               /\ columns[j].boardId = tasks[i].boardId

----------------------------------------------------------------------------
(* Deletions. *)

\* seq is prev without the records that `gone` holds of, in the same order.
keptExactly(prev, seq, gone(_)) ==
    /\ \A x \in elems(prev) : gone(x) => x \notin elems(seq)
    /\ \A x \in elems(prev) : ~gone(x) => x \in elems(seq)
    /\ elems(seq) \subseteq elems(prev)
    /\ Len(seq) = Cardinality({i \in 1..Len(prev) : ~gone(prev[i])})

\* C4: a confirmed deleteBoard(b) removes exactly the board with id b, the
\* columns whose boardId is b and the tasks whose boardId is b; every other
\* board, column and task is still there with all of its fields unchanged.
C4_DeleteBoardExact ==
    last.op = "deleteBoard" =>
        /\ keptExactly(last.boards, boards, LAMBDA x : x.id = last.id)
        /\ keptExactly(last.columns, columns, LAMBDA x : x.boardId = last.id)
        /\ keptExactly(last.tasks, tasks, LAMBDA x : x.boardId = last.id)

\* A board with a column and a task was deleted while another board with a
\* column stayed.
C4_Witness ==
    /\ last.op = "deleteBoard"
    /\ \E x \in elems(last.columns) : x.boardId = last.id
    /\ \E x \in elems(last.tasks) : x.boardId = last.id
    /\ boards # <<>> /\ columns # <<>>

\* C5: a confirmed deleteColumn(c) removes exactly the column with id c and
\* the tasks whose columnId is c; boards, every other column and every other
\* task are still there with all of their fields unchanged.
C5_DeleteColumnExact ==
    last.op = "deleteColumn" =>
        /\ boards = last.boards
        /\ keptExactly(last.columns, columns, LAMBDA x : x.id = last.id)
        /\ keptExactly(last.tasks, tasks, LAMBDA x : x.columnId = last.id)

\* A column with a task was deleted while another column with a task stayed.
C5_Witness ==
    /\ last.op = "deleteColumn"
    /\ \E x \in elems(last.tasks) : x.columnId = last.id
    /\ columns # <<>> /\ tasks # <<>>

\* The kinds of the three confirmations, which are also the names under which
\* the history records their onConfirm.
DeleteKinds == {"deleteBoard", "deleteColumn", "deleteTask"}

\* Some board, column or task of this state is not in the next one.
removal ==
    \/ ~(idsOf(boards) \subseteq idsOf(boards'))
    \/ ~(idsOf(columns) \subseteq idsOf(columns'))
    \/ ~(idsOf(tasks) \subseteq idsOf(tasks'))

\* C11: for deleteBoard, deleteColumn and deleteTask, the step that opens the
\* confirmation changes none of boards, columns, tasks; a step that closes it
\* without confirming changes none of them; and a step of the running board
\* that removes anything is the onConfirm of the confirmation that is open,
\* for the id it was requested for, and closes it (so it runs at most once
\* per request).
C11_DeletionsConfirmGated ==
    [][ /\ (modalContent'.kind \in DeleteKinds /\ modalContent' # modalContent)
               => UNCHANGED <<boards, columns, tasks>>
        /\ (/\ modalContent.kind \in DeleteKinds
            /\ modalContent'.kind = "none"
            /\ last'.op \notin DeleteKinds
            /\ mounted')
               => UNCHANGED <<boards, columns, tasks>>
        /\ (mounted /\ mounted' /\ removal)
               => /\ last'.op \in DeleteKinds
                  /\ modalContent.kind = last'.op
                  /\ modalContent.id = last'.id
                  /\ modalContent'.kind = "none"
      ]_vars

\* A confirmed deleteColumn removed a column and a task of it.
C11_Witness ==
    /\ last.op = "deleteColumn"
    /\ Len(columns) < Len(last.columns)
    /\ Len(tasks) < Len(last.tasks)

----------------------------------------------------------------------------
(* Drops. *)

\* C6: a drop of a task onto its own column leaves the set of task ids of the
\* column and its task count unchanged, changes no field other than order of
\* the column's tasks, and changes no task of any other column.
C6_SameColumnFrame ==
    sameColumnDrop =>
        /\ idsOf(tasksInColumn(tasks, last.id)) = idsOf(tasksInColumn(last.tasks, last.id))
        /\ Len(tasksInColumn(tasks, last.id)) = Len(tasksInColumn(last.tasks, last.id))
        /\ Len(tasks) = Len(last.tasks)
        /\ \A i \in 1..Len(tasks) :
               /\ [tasks[i] EXCEPT !.order = 0] = [last.tasks[i] EXCEPT !.order = 0]
               /\ last.tasks[i].columnId # last.id => tasks[i] = last.tasks[i]

\* A same-column drop on a target task changed the orders of the column.
C6_Witness ==
    /\ sameColumnDrop
    /\ last.target # <<>>
    /\ tasks # last.tasks

\* C7: after a same-column drop of task d on target task t (another task of
\* the column), d is immediately before t in the column's display order; with
\* no target task d is last; either way the other tasks keep their relative
\* order and the column's orders are 0..n-1 in display order.
C7_SameColumnPlacement ==
    (sameColumnDrop /\ dropFound) =>
        LET d      == last.dragged[1].id
            before == displayIds(last.tasks, last.id)
            after  == displayIds(tasks, last.id)
            sorted == sortedColumn(tasks, last.id)
        IN  /\ withoutId(after, d) = withoutId(before, d)
            /\ Len(after) = Len(before)
            /\ \A k \in 1..Len(sorted) : sorted[k].order = k - 1
            /\ last.target = <<>> => after[Len(after)] = d
            /\ (last.target # <<>> /\ last.target[1] # d) =>
                   \E k \in 1..(Len(after) - 1) :
                       after[k] = d /\ after[k + 1] = last.target[1]

\* The instance of the claim: the first of three tasks dropped on the third
\* ends up second.
C7_Witness ==
    /\ sameColumnDrop /\ dropFound
    /\ Len(displayIds(last.tasks, last.id)) = 3
    /\ last.dragged[1].id = displayIds(last.tasks, last.id)[1]
    /\ last.target = <<displayIds(last.tasks, last.id)[3]>>
    /\ displayIds(tasks, last.id) =
           <<displayIds(last.tasks, last.id)[2], displayIds(last.tasks, last.id)[1],
             displayIds(last.tasks, last.id)[3]>>

\* C8: after a drop of an existing task d onto a column other than its own,
\* d's columnId is the target column and d's order is greater than the order
\* of every other task of the target column; the tasks left in the source
\* column have the orders 0..m-1 in their previous relative order; the other
\* tasks of the target column are unchanged.
C8_CrossColumnMove ==
    (crossColumnDrop /\ dropFound) =>
        LET d      == last.dragged[1].id
            source == last.dragged[1].columnId
            left   == sortedColumn(tasks, source)
        IN  /\ Len(tasks) = Len(last.tasks)
            /\ \A i \in 1..Len(tasks) :
                   /\ tasks[i].id = d =>
                          /\ tasks[i].columnId = last.id
                          /\ \A j \in 1..Len(tasks) :
                                 (j # i /\ tasks[j].columnId = last.id)
                                     => tasks[j].order < tasks[i].order
                   /\ last.tasks[i].columnId = last.id => tasks[i] = last.tasks[i]
            /\ displayIds(tasks, source) = withoutId(displayIds(last.tasks, source), d)
            /\ \A k \in 1..Len(left) : left[k].order = k - 1

\* A task was moved to a column that already held a task.
C8_Witness ==
    /\ crossColumnDrop /\ dropFound
    /\ tasksInColumn(last.tasks, last.id) # <<>>
    /\ \E x \in elems(tasks) : x.id = last.dragged[1].id /\ x.columnId = last.id

\* C9: if the remembered dragged task is not among the tasks of the column it
\* was remembered in, handleDrop leaves tasks unchanged, whether the drop
\* target is that column or another one.
C9_MissingTaskNoOp ==
    (dropRan /\ ~dropFound) => tasks = last.tasks

----------------------------------------------------------------------------
(* Permissions. *)

\* C10: no handler that runs while isAdmin is false changes boards, columns
\* or tasks.
C10_ViewerChangesNothing ==
    (last.op # "none" /\ ~last.isAdmin) =>
        /\ boards = last.boards
        /\ columns = last.columns
        /\ tasks = last.tasks

----------------------------------------------------------------------------
(* The session. *)

\* The stored flag kanban_password_changed is not true.
neverChanged(st) == st.kanban_password_changed # jsonBool(TRUE)

\* C12: a login as 'admin' with the default password while the password was
\* never changed grants nothing: isAdmin and the stored kanban_isAdmin stay
\* false and the password-change form is shown; and as long as the password
\* was never changed, no session is granted.
C12_DefaultLoginForcesChange ==
    /\ (/\ last.auth = "handleLogin"
        /\ last.typed = <<ADMIN_USERNAME, DEFAULT_ADMIN_PASSWORD>>
        /\ neverChanged(last.storage))
           => /\ ~isAdmin
              /\ storage.kanban_isAdmin # jsonBool(TRUE)
              /\ currentPage = "login"
              /\ showPasswordChange
    /\ neverChanged(storage) => (~isAdmin /\ storage.kanban_isAdmin # jsonBool(TRUE))

\* The first login with the default password led to the password-change form.
C12_Witness ==
    /\ last.auth = "handleLogin"
    /\ last.typed = <<ADMIN_USERNAME, DEFAULT_ADMIN_PASSWORD>>
    /\ neverChanged(last.storage)
    /\ showPasswordChange

\* C13: a password change with a wrong current password, with a new password
\* of fewer than 6 characters, or with a confirmation that differs from the
\* new password leaves the stored password and the password-changed flag as
\* they were, grants no session and leaves the change form open.
C13_RejectedChangeKeepsAll ==
    (/\ last.auth = "handleChangePassword"
     /\ \/ last.typed[1] # getAdminPassword(last.storage)
        \/ Len(last.typed[2]) < 6
        \/ last.typed[3] # last.typed[2])
        => /\ storage.kanban_admin_password = last.storage.kanban_admin_password
           /\ storage.kanban_password_changed = last.storage.kanban_password_changed
           /\ ~isAdmin
           /\ ~storedAdminStatus(storage)
           /\ currentPage = "login"
           /\ showPasswordChange

\* A change was rejected only because the new password has five characters.
C13_Witness ==
    /\ last.auth = "handleChangePassword"
    /\ last.typed[1] = getAdminPassword(last.storage)
    /\ Len(last.typed[2]) = 5
    /\ last.typed[3] = last.typed[2]
    /\ showPasswordChange

----------------------------------------------------------------------------
(* The current board. *)

\* C14: while the board is on screen, currentBoardId is the id of a board
\* whenever there is a board and null when there is none; and after a
\* confirmed deleteBoard of the selected board it is the first of the boards
\* that are left.
C14_CurrentBoardValid ==
    /\ mounted =>
           IF boards # <<>> THEN currentBoardId \in idsOf(boards)
           ELSE currentBoardId = Null
    /\ (last.op = "deleteBoard" /\ last.id = last.currentBoardId) =>
           currentBoardId = (IF boards # <<>> THEN boards[1].id ELSE Null)

\* The selected board was deleted and another board took its place.
C14_Witness ==
    /\ last.op = "deleteBoard"
    /\ last.id = last.currentBoardId
    /\ boards # <<>>
    /\ currentBoardId = boards[1].id

----------------------------------------------------------------------------
(* Persistence. *)

\* C15: while the board is on screen, the stored kanban_boards,
\* kanban_columns, kanban_tasks and kanban_currentBoardId hold the values in
\* memory; and when KanbanBoard is mounted again (page reload, or the login
\* page and back) it has the boards, columns, tasks and current board it had
\* when it left the screen.
C15_PersistenceRoundTrip ==
    /\ mounted =>
           /\ storage.kanban_boards = jsonList(boards)
           /\ storage.kanban_columns = jsonList(columns)
           /\ storage.kanban_tasks = jsonList(tasks)
           /\ storage.kanban_currentBoardId = jsonId(currentBoardId)
    /\ last.remount => memory = last.kept

\* A board with a column and a task came back after KanbanBoard had left the screen.
C15_Witness ==
    /\ last.remount
    /\ last.kept.tasks # <<>>
    /\ tasks = last.kept.tasks
    /\ currentBoardId # Null

----------------------------------------------------------------------------
(* Identifiers. *)

unique(seq) == \A i, j \in 1..Len(seq) : i # j => seq[i].id # seq[j].id

\* C16: in every reachable state no two boards share an id, no two columns
\* share an id and no two tasks share an id, also when two creations of the
\* same kind read the same clock value.
C16_UniqueIds == unique(boards) /\ unique(columns) /\ unique(tasks)

----------------------------------------------------------------------------
(* Startup. *)

\* C17: whatever kanban_boards, kanban_columns and kanban_tasks hold at
\* startup, the load goes through; a list whose entry is absent, unparsable
\* or not a list is loaded as the empty list; and the current board is the id
\* of a loaded board, or null when there is none.
C17_StartupSurvivesBadStorage ==
    last.op = "startup" =>
        /\ phase = "running"
        /\ last.storage.kanban_boards.kind # "list" => boards = <<>>
        /\ last.storage.kanban_columns.kind # "list" => columns = <<>>
        /\ last.storage.kanban_tasks.kind # "list" => tasks = <<>>
        /\ IF boards # <<>> THEN currentBoardId \in idsOf(boards)
           ELSE currentBoardId = Null

----------------------------------------------------------------------------
(* The task detail. *)

\* C18: once the click on the delete button of a task's detail view has been
\* handled, the confirmation for that task is the open modal.
C18_DeleteClickOpensConfirmation ==
    last.op = "taskDetailDelete" =>
        /\ modalContent.kind = "deleteTask"
        /\ modalContent.id = last.id

----------------------------------------------------------------------------
(* Columns dragged. *)

\* The ids of a board's columns in display order (sorted by order).
displayColumnIds(cs, boardId) ==
    LET sorted == sortByOrder(columnsOfBoard(cs, boardId))
    IN  [i \in 1..Len(sorted) |-> sorted[i].id]

\* The position of an id in a sequence of ids that holds it.
indexOf(ids, id) == CHOOSE i \in 1..Len(ids) : ids[i] = id

\* The last handler ran as admin with a remembered column S other than the
\* target column T (last.id), both columns of the board that was current.
columnMove ==
    /\ last.isAdmin
    /\ last.draggedColumn # <<>>
    /\ last.draggedColumn[1].id # last.id
    /\ \E i, j \in 1..Len(last.columns) :
           /\ last.columns[i].id = last.draggedColumn[1].id
           /\ last.columns[i].boardId = last.currentBoardId
           /\ last.columns[j].id = last.id
           /\ last.columns[j].boardId = last.currentBoardId

\* S sits where T was, the other columns of the board keep their relative
\* order, the board's orders are 0..n-1 in display order, and every column is
\* there as before, those of the board up to their order.
columnsReordered ==
    LET b      == last.currentBoardId
        S      == last.draggedColumn[1].id
        before == displayColumnIds(last.columns, b)
        after  == displayColumnIds(columns, b)
        sorted == sortByOrder(columnsOfBoard(columns, b))
    IN  /\ Len(after) = Len(before)
        /\ after[indexOf(before, last.id)] = S
        /\ withoutId(after, S) = withoutId(before, S)
        /\ \A k \in 1..Len(sorted) : sorted[k].order = k - 1
        /\ Len(columns) = Len(last.columns)
        /\ \A x \in elems(last.columns) :
               IF x.boardId = b
               THEN \E y \in elems(columns) : [y EXCEPT !.order = x.order] = x
               ELSE x \in elems(columns)

\* C19: handleColumnDrop with a remembered column S and a different target
\* column T, both of the current board, puts S at the index T had in the
\* board's display order, keeps the relative order of the others, leaves the
\* board's orders 0..n-1, the set of columns, the columns of other boards and
\* all tasks as they were; in every other case columns and tasks are unchanged.
C19_ColumnDropReorders ==
    last.op = "handleColumnDrop" =>
        /\ tasks = last.tasks
        /\ boards = last.boards
        /\ IF columnMove THEN columnsReordered ELSE columns = last.columns

\* The first of three columns was dropped on the third and is now the last.
C19_Witness ==
    /\ last.op = "handleColumnDrop"
    /\ columnMove
    /\ Len(displayColumnIds(last.columns, last.currentBoardId)) = 3
    /\ last.draggedColumn[1].id = displayColumnIds(last.columns, last.currentBoardId)[1]
    /\ last.id = displayColumnIds(last.columns, last.currentBoardId)[3]
    /\ displayColumnIds(columns, last.currentBoardId)[3] = last.draggedColumn[1].id

\* C20: when an admin starts dragging a column and drops it on another column
\* of the same board, the board's columns are reordered as handleColumnDrop
\* reorders them, and no task's columnId or order changes.
C20_ColumnGestureReorders ==
    (last.op = "handleDrop" /\ last.columnGesture /\ columnMove) =>
        /\ columnsReordered
        /\ Len(tasks) = Len(last.tasks)
        /\ \A i \in 1..Len(tasks) :
               /\ tasks[i].columnId = last.tasks[i].columnId
               /\ tasks[i].order = last.tasks[i].order

----------------------------------------------------------------------------
(* Creations. *)

\* A name or title that the prompts take: not empty and not only blanks.
nonBlank(text) == text # <<>> /\ trim(text) # <<>>

\* columns is last.columns with one more column, of the name typed, on board
\* b, ordered after b's columns.
oneColumnAdded(b) ==
    /\ Len(columns) = Len(last.columns) + 1
    /\ SubSeq(columns, 1, Len(last.columns)) = last.columns
    /\ columns[Len(columns)].name = last.text
    /\ columns[Len(columns)].boardId = b
    /\ columns[Len(columns)].order = nextOrder(columnsOfBoard(last.columns, b))

\* C21 as stated: a confirmed addColumn with a non-blank name while a board
\* is selected adds exactly one column, on the board that is current, ordered
\* after that board's columns, and changes no other column; with a blank name
\* or no board selected no column is added.
C21_AddColumnOnCurrentBoard ==
    last.op = "addColumn" =>
        IF nonBlank(last.text) /\ last.currentBoardId # Null
        THEN oneColumnAdded(last.currentBoardId)
        ELSE columns = last.columns

\* C21, amended: the board is the one that was current when addColumn()
\* opened the prompt.
C21_AddColumnOnRequestedBoard ==
    last.op = "addColumn" =>
        IF nonBlank(last.text) /\ last.requestBoardId # Null
        THEN oneColumnAdded(last.requestBoardId)
        ELSE columns = last.columns

\* A column was added to a board that had columns, after the largest order.
C21_Witness ==
    /\ last.op = "addColumn"
    /\ nonBlank(last.text)
    /\ columnsOfBoard(last.columns, last.requestBoardId) # <<>>
    /\ oneColumnAdded(last.requestBoardId)
    /\ columns[Len(columns)].order > 0

\* tasks is last.tasks with one more task, of the title typed, in the column
\* asked for and on board b, ordered after the column's tasks.
oneTaskAdded(b) ==
    /\ Len(tasks) = Len(last.tasks) + 1
    /\ SubSeq(tasks, 1, Len(last.tasks)) = last.tasks
    /\ tasks[Len(tasks)].title = last.text
    /\ tasks[Len(tasks)].description = <<>>
    /\ tasks[Len(tasks)].status = "todo"
    /\ tasks[Len(tasks)].columnId = last.id
    /\ tasks[Len(tasks)].boardId = b
    /\ tasks[Len(tasks)].order = nextOrder(tasksInColumn(last.tasks, last.id))

\* C22 as stated: a confirmed addTask(columnId) with a non-blank title adds
\* exactly one task with that columnId, the boardId of the board that is
\* current, status 'todo', an empty description and the order after the
\* column's tasks, and changes no other task; with a blank title no task is
\* added.
C22_AddTaskOnCurrentBoard ==
    last.op = "addTask" =>
        IF nonBlank(last.text)
        THEN oneTaskAdded(last.currentBoardId)
        ELSE tasks = last.tasks

\* C22, amended: the boardId is the board that was current when
\* addTask(columnId) opened the prompt.
C22_AddTaskOnRequestedBoard ==
    last.op = "addTask" =>
        IF nonBlank(last.text)
        THEN oneTaskAdded(last.requestBoardId)
        ELSE tasks = last.tasks

\* A task was added to a column that had tasks, after the largest order.
C22_Witness ==
    /\ last.op = "addTask"
    /\ nonBlank(last.text)
    /\ tasksInColumn(last.tasks, last.id) # <<>>
    /\ oneTaskAdded(last.requestBoardId)
    /\ tasks[Len(tasks)].order > 0

----------------------------------------------------------------------------
(* Task status. *)

\* What a step does to the tasks that are there before and after it.
statusChanged(i, j) == tasks[i].id = tasks'[j].id /\ tasks[i].status # tasks'[j].status

\* The step is updateTask(taskId, updates).
updateTaskStep(taskId) == last'.op = "updateTask" /\ last'.id = taskId

\* The fields updateTask leaves alone.
sameButText(t, u) ==
    /\ u.id = t.id /\ u.columnId = t.columnId /\ u.boardId = t.boardId
    /\ u.order = t.order /\ u.createdAt = t.createdAt

\* C23: every task's status is one of 'todo', 'in-progress', 'done'; a step
\* that changes the status of a task that stays is an updateTask on that task;
\* updateTask gives that task the title, description and status passed,
\* whatever its status was, and changes nothing else of it and no other task.
C23_StatusOnlyByUpdateTask ==
    [][/\ \A j \in DOMAIN tasks' : tasks'[j].status \in Statuses
       /\ \A i \in DOMAIN tasks, j \in DOMAIN tasks' :
              statusChanged(i, j) => updateTaskStep(tasks[i].id)
       /\ last'.op = "updateTask" =>
              /\ DOMAIN tasks' = DOMAIN tasks
              /\ \A i \in DOMAIN tasks :
                     IF tasks[i].id = last'.id
                     THEN /\ sameButText(tasks[i], tasks'[i])
                          /\ <<tasks'[i].title, tasks'[i].description,
                                tasks'[i].status>> = last'.updates
                     ELSE tasks'[i] = tasks[i]]_vars

\* updateTask took a task from 'done' to 'in-progress', beside another task
\* that kept its status.
C23_Witness ==
    /\ last.op = "updateTask"
    /\ Len(tasks) > 1
    /\ \E i \in DOMAIN tasks :
           /\ tasks[i].id = last.id
           /\ last.tasks[i].status = "done"
           /\ tasks[i].status = "in-progress"

----------------------------------------------------------------------------
(* Sessions and the password. *)

\* C24: from fresh storage, a session holds edit rights (isAdmin, or the
\* stored kanban_isAdmin that a reload restores) only if the password-changed
\* flag is stored as true, whatever logins, password changes, logouts and
\* reloads came before.
C24_AdminNeedsChangedPassword ==
    (isAdmin \/ storage.kanban_isAdmin = jsonBool(TRUE)) =>
        storage.kanban_password_changed = jsonBool(TRUE)

\* An admin session opened by a login with the changed password.
C24_Witness ==
    /\ isAdmin
    /\ storage.kanban_isAdmin = jsonBool(TRUE)
    /\ last.auth = "handleLogin"
    /\ last.typed[2] # DEFAULT_ADMIN_PASSWORD

----------------------------------------------------------------------------
(* Orders. *)

\* No two entries of seq with the same owner have the same order.
distinctOrders(seq, owner(_)) ==
    \A i, j \in 1..Len(seq) :
        (i # j /\ owner(seq[i]) = owner(seq[j])) => seq[i].order # seq[j].order

columnOf(t) == t.columnId
boardOf(c) == c.boardId

\* C25: in every reachable state the orders of the tasks of one column are
\* pairwise distinct and the orders of the columns of one board are pairwise
\* distinct, gaps left by deletions or not.
C25_OrdersDistinct ==
    /\ distinctOrders(tasks, columnOf)
    /\ distinctOrders(columns, boardOf)

----------------------------------------------------------------------------
(* Drag gestures. *)

\* C26: a same-column drop whose target task is the dragged task itself
\* leaves the display sequence of the column as it was, whatever the size of
\* the column and the position of the task.
C26_SelfDropKeepsSequence ==
    (sameColumnDrop /\ dropFound /\ last.target = <<last.dragged[1].id>>) =>
        displayIds(tasks, last.id) = displayIds(last.tasks, last.id)

\* C27: a task drag that ended without a drop has no later effect: a drop
\* that does not end a task drag just started (the handler before it was not
\* handleDragStart, so any earlier drag is over) changes no task.
C27_EndedDragHasNoEffect ==
    (last.op = "handleDrop" /\ ~last.taskGesture) => tasks = last.tasks

----------------------------------------------------------------------------
(* The changed password. *)

\* The handler that ran last opened the session (it called handleLoginSuccess).
loggedInBy(handler) == last.auth = handler /\ last.remount

\* C28: after an accepted password change the stored password is not the
\* one that was current before it; so with the password-changed flag stored
\* as true, a login with the default password 'password123' is not accepted.
C28_ChangedPasswordDiffers ==
    /\ loggedInBy("handleChangePassword") =>
           getAdminPassword(storage) # getAdminPassword(last.storage)
    /\ (/\ last.auth = "handleLogin"
        /\ last.storage.kanban_password_changed = jsonBool(TRUE)
        /\ last.typed = <<ADMIN_USERNAME, DEFAULT_ADMIN_PASSWORD>>) => ~last.remount

====
